---------------------------- MODULE Spec2Model ----------------------------
(***************************************************************************)
(* A model of MPD's music chunk (src/MusicChunk.cxx) and of the DSD-to-USB *)
(* packer declared in src/pcm/PcmDsdUsb.hxx.                               *)
(*                                                                         *)
(* The chunk is modelled in both of its builds: the debug build, where     *)
(* assert() aborts the process and the chunk has an audio_format field,    *)
(* and the release build (NDEBUG), where the assertions, CheckFormat() and *)
(* the audio_format field are compiled out.                                *)
(*                                                                         *)
(* size_t arithmetic is modelled modulo 2^SizeBits; the width is scaled    *)
(* down so that the wrap-around is within reach of the model checker.  As  *)
(* in the program, a chunk holds at least one frame of every format, and   *)
(* sizeof(data) plus a frame size does not overflow size_t: the bounds     *)
(* keep the largest frame size (2 * MaxChannels) <= SizeofData and         *)
(* SizeofData + 2 * MaxChannels < 2^SizeBits.                              *)
(*                                                                         *)
(* MusicChunk.hxx, AudioFormat.hxx and the body of pcm_dsd_to_usb are not  *)
(* among the sources: the constructor, Reset, the attaching of a tag, the  *)
(* AudioFormat methods and the packer follow the specification's text.     *)
(***************************************************************************)
EXTENDS Integers, Sequences, FiniteSets, TLC

(***************************************************************************)
(* Bounds of the model.                                                    *)
(***************************************************************************)
\* sizeof(data): the capacity C of a chunk, scaled down.
SizeofData == 8
\* The width of size_t in bits, scaled down.
SizeBits == 4
\* The channel counts 1..MaxChannels of the formats the callers pass.
MaxChannels == 3
\* Expand() is called with 0..MaxCommit bytes ...
MaxCommit == 6
\* ... and with the MaxWrapBack largest values of size_t.
MaxWrapBack == 2
\* The number of Tag objects a run allocates.
MaxTags == 2
\* pcm_dsd_to_usb() is called with 1..MaxPackChannels channels ...
MaxPackChannels == 2
\* ... and with 0..MaxSrcLen DSD bytes.
MaxSrcLen == 4
MaxPairLen == 2
MaxData == 3
MaxStreamSize == 3

SizeMod == 2 ^ SizeBits

\* The (data_time, _bit_rate) pairs the callers pass to Write().
Stamps == {[data_time |-> 1, bit_rate |-> 128],
           [data_time |-> 2, bit_rate |-> 320]}

(***************************************************************************)
(* AudioFormat                                                             *)
(***************************************************************************)
SampleFormats == {"S8", "S16"}

\* The valid formats the callers pass: 16 bit samples, 1..MaxChannels channels.
ValidFormats ==
    [sample_rate : {44100}, format : {"S16"}, channels : 1..MaxChannels]

\* AudioFormat::Undefined(): all fields cleared.
UndefinedFormat == [sample_rate |-> 0, format |-> "UNDEFINED", channels |-> 0]

AudioFormats == ValidFormats \cup {UndefinedFormat}

\* The value of the audio_format field in a build that has no such field.
NoField == [sample_rate |-> 0, format |-> "NDEBUG", channels |-> 0]

IsValid(af) ==
    /\ af.sample_rate > 0
    /\ af.format \in SampleFormats
    /\ af.channels > 0

GetSampleSize(af) ==
    CASE af.format = "S8" -> 1
      [] af.format = "S16" -> 2
      [] OTHER -> 0

GetFrameSize(af) == GetSampleSize(af) * af.channels

(***************************************************************************)
(* size_t arithmetic                                                       *)
(***************************************************************************)
SizeAdd(a, b) == (a + b) % SizeMod
SizeSub(a, b) == (a - b) % SizeMod

(***************************************************************************)
(* The state.                                                              *)
(***************************************************************************)
VARIABLES
    ndebug,        \* TRUE: the release build (NDEBUG defined)
    status,        \* "live", "aborted" (a failed assert or a trap), "destroyed"
    length,        \* MusicChunk::length
    audio_format,  \* MusicChunk::audio_format (debug build only)
    bit_rate,      \* MusicChunk::bit_rate
    times,         \* MusicChunk::times
    tag,           \* MusicChunk::tag: 0 is nullptr, else the id of a Tag
    tags_new,      \* the number of Tag objects allocated so far (ids 1..tags_new)
    tag_deletes,   \* how often each Tag object has been deleted
    call,          \* the last call on the chunk: arguments and result
    hist,          \* history of the calls since the chunk was last empty
    scratch,       \* the PcmBuffer: its capacity in bytes
    packed,        \* the last pcm_dsd_to_usb() call: arguments and result
    earlier,       \* some pcm_dsd_to_usb() call made before the last one
    decoder,       \* the decode or scan function that is running
    is,            \* the InputStream a SndfileInputStream reads from
    vio            \* the last sndfile_vio_*() call: arguments and result

chunk_vars == <<ndebug, status, length, audio_format, bit_rate, times,
                tag, tags_new, tag_deletes, call, hist>>
pack_vars == <<scratch, packed>>
plugin_vars == <<decoder, is, vio>>
vars == <<chunk_vars, pack_vars, earlier, plugin_vars>>

NoRegion == [null |-> TRUE, off |-> 0, size |-> 0]

\* No decode or scan function is running.  opened: the codec handle has been
\* opened; releases: how often it has been released; cmd: the local variable
\* cmd; last: what the last decoder_data() returned; datas, seeks: the
\* numbers of decoder_data() calls and of SEEK commands among their results;
\* acks: the number of decoder_command_finished() and decoder_seek_error()
\* calls, ack: the last of them.
NoDecoder == [fn |-> "none", pc |-> "idle", opened |-> FALSE, releases |-> 0,
              cmd |-> "unset", last |-> "unset", datas |-> 0, seeks |-> 0,
              acks |-> 0, ack |-> "none", seek_failed |-> FALSE]

\* No stream has been opened yet.  size: the number of bytes of the stream;
\* known: KnownSize(); seekable: IsSeekable(); offset: GetOffset().
NoStream == [open |-> FALSE, size |-> 0, known |-> FALSE, seekable |-> FALSE,
             offset |-> 0]

\* count, got: the bytes a read asked for and the bytes the stream gave;
\* offset, whence: the arguments of a seek; sought: LockSeek() was called,
\* with target, and returned ok; ret: the value returned.
NoVio == [op |-> "none", count |-> 0, got |-> 0, offset |-> 0,
          whence |-> "SEEK_SET", sought |-> FALSE, target |-> 0, ok |-> FALSE,
          ret |-> 0]

NoCall == [op |-> "none", af |-> UndefinedFormat, data_time |-> 0,
           bit_rate |-> 0, n |-> 0, region |-> NoRegion, full |-> FALSE,
           failed |-> FALSE]

\* The formats of the calls since the chunk was last empty: none so far, one
\* format (that format), or several.
NoFormatYet == [sample_rate |-> 0, format |-> "none", channels |-> 0]
MixedFormats == [sample_rate |-> 0, format |-> "mixed", channels |-> 0]

\* fits: every Expand() so far committed no more than what was left of the
\* region the preceding Write() returned; reserved: what is left of it;
\* written: a Write() has returned; raf: in the debug build, the format of
\* the last Write() that returned a region.
NoHist == [fits |-> TRUE, reserved |-> 0, af |-> NoFormatYet,
           written |-> FALSE, raf |-> NoFormatYet]

\* hist.af after a call with format af that committed _length bytes: it stays
\* one format as long as every call has that format and every commit is a
\* whole number of its frames.
HistFormat(h, af, _length) ==
    IF /\ h.af \in {NoFormatYet, af}
       /\ GetFrameSize(af) # 0
       /\ _length % GetFrameSize(af) = 0
    THEN af
    ELSE MixedFormats

(***************************************************************************)
(* MusicChunk::CheckFormat (debug build only).  The inner assert is        *)
(* modelled by CheckFormatAssert.                                          *)
(***************************************************************************)
CheckFormatAssert(other_format) == IsValid(other_format)

CheckFormat_Always(other_format) == TRUE

CheckFormat(other_format) ==
    length = 0 \/ audio_format = other_format

(***************************************************************************)
(* MusicChunk::Write                                                       *)
(***************************************************************************)
\* The assertions at the head of Write().
WriteAsserts(af) ==
    /\ CheckFormatAssert(af)
    /\ CheckFormat(af)
    /\ (length = 0 \/ IsValid(audio_format))

WriteStamps_Always(len) == TRUE

\* "if (length == 0)": whether Write() stores bit_rate and times.
WriteStamps(len) == len = 0

NumFrames_RoundUp(len, frame_size) ==
    (SizeSub(SizeofData, len) + frame_size - 1) \div frame_size

\* size_t num_frames = (sizeof(data) - length) / frame_size;
NumFrames(len, frame_size) == SizeSub(SizeofData, len) \div frame_size

\* return { data + length, num_frames * frame_size };
WriteRegion(len, num_frames, frame_size) ==
    [null |-> FALSE, off |-> len, size |-> num_frames * frame_size]

WriteLength_Commit(len, size) == SizeAdd(len, size)

\* Write() does not assign length.
WriteLength(len, size) == len

WriteAudioFormat_Unset(af, num_frames) == audio_format

\* "#ifndef NDEBUG audio_format = af; #endif", after the early return.
WriteAudioFormat(af, num_frames) ==
    IF ~ndebug /\ num_frames # 0 THEN af ELSE audio_format

\* The state after Write() returned `region`, having computed `num_frames`.
WriteReturns(af, data_time, _bit_rate, num_frames, region) ==
    /\ status' = status
    /\ bit_rate' = IF WriteStamps(length) THEN _bit_rate ELSE bit_rate
    /\ times' = IF WriteStamps(length) THEN data_time ELSE times
    /\ audio_format' = WriteAudioFormat(af, num_frames)
    /\ length' = WriteLength(length, region.size)
    /\ call' = [NoCall EXCEPT !.op = "Write", !.af = af,
                              !.data_time = data_time, !.bit_rate = _bit_rate,
                              !.region = region]
    /\ hist' = [hist EXCEPT !.reserved = region.size,
                            !.af = HistFormat(hist, af, 0),
                            !.written = TRUE,
                            !.raf = IF ~ndebug /\ region.size > 0
                                    THEN af ELSE hist.raf]
    /\ UNCHANGED <<ndebug, tag, tags_new, tag_deletes>>

\* A failed assertion, or a trap: the process ends, the chunk is as it was.
Aborts(op, af, data_time, _bit_rate, n) ==
    /\ status' = "aborted"
    /\ call' = [NoCall EXCEPT !.op = op, !.af = af, !.data_time = data_time,
                              !.bit_rate = _bit_rate, !.n = n,
                              !.failed = TRUE]
    /\ UNCHANGED <<ndebug, length, audio_format, bit_rate, times,
                   tag, tags_new, tag_deletes, hist>>

Write(af, data_time, _bit_rate) ==
    /\ status = "live"
    /\ LET frame_size == GetFrameSize(af) IN
       IF ~ndebug /\ ~WriteAsserts(af)
       THEN Aborts("Write", af, data_time, _bit_rate, 0)
       ELSE IF frame_size = 0
       THEN \* division by zero (release build only): undefined behaviour;
            \* the process traps, or the quotient is any value
            \/ Aborts("Write", af, data_time, _bit_rate, 0)
            \/ WriteReturns(af, data_time, _bit_rate, 0, NoRegion)
            \/ WriteReturns(af, data_time, _bit_rate, 1,
                            WriteRegion(length, 1, frame_size))
       ELSE LET num_frames == NumFrames(length, frame_size) IN
            IF num_frames = 0
            THEN WriteReturns(af, data_time, _bit_rate, 0, NoRegion)
            ELSE WriteReturns(af, data_time, _bit_rate, num_frames,
                              WriteRegion(length, num_frames, frame_size))
    /\ UNCHANGED <<pack_vars, earlier, plugin_vars>>

(***************************************************************************)
(* MusicChunk::Expand                                                      *)
(***************************************************************************)
ExpandAsserts_SizeOnly(af, _length) ==
    SizeAdd(length, _length) <= SizeofData

\* The assertions of Expand().
ExpandAsserts(af, _length) ==
    /\ SizeAdd(length, _length) <= SizeofData
    /\ audio_format = af

ExpandLength_Set(len, _length) == _length

ExpandLength_OneMore(len, _length) == SizeAdd(len, _length + 1)

\* length += _length;
ExpandLength(len, _length) == SizeAdd(len, _length)

ExpandFull_AtLeast(len, frame_size) == SizeAdd(len, frame_size) >= SizeofData

ExpandFull_NoFrame(len, frame_size) == len >= SizeofData

\* return length + frame_size > sizeof(data);
ExpandFull(len, frame_size) == SizeAdd(len, frame_size) > SizeofData

Expand(af, _length) ==
    /\ status = "live"
    /\ LET frame_size == GetFrameSize(af) IN
       IF ~ndebug /\ ~ExpandAsserts(af, _length)
       THEN Aborts("Expand", af, 0, 0, _length)
       ELSE /\ length' = ExpandLength(length, _length)
            /\ call' = [NoCall EXCEPT !.op = "Expand", !.af = af,
                            !.n = _length,
                            !.full = ExpandFull(length', frame_size)]
            /\ hist' = [fits |-> hist.fits /\ _length <= hist.reserved,
                        reserved |-> IF _length <= hist.reserved
                                     THEN hist.reserved - _length ELSE 0,
                        af |-> HistFormat(hist, af, _length),
                        written |-> hist.written,
                        raf |-> hist.raf]
            /\ UNCHANGED <<ndebug, status, audio_format, bit_rate, times,
                           tag, tags_new, tag_deletes>>
    /\ UNCHANGED <<pack_vars, earlier, plugin_vars>>

(***************************************************************************)
(* The tag, Reset and the destructor                                       *)
(***************************************************************************)
\* delete tag; (deleting nullptr does nothing)
DeleteTag(deletes, ptr) ==
    IF ptr = 0 THEN deletes ELSE [deletes EXCEPT ![ptr] = @ + 1]

\* Attaching a new tag replaces and destroys the old one.
SetTag ==
    /\ status = "live"
    /\ tags_new < MaxTags
    /\ tags_new' = tags_new + 1
    /\ tag_deletes' = DeleteTag(tag_deletes, tag)
    /\ tag' = tags_new + 1
    /\ call' = [NoCall EXCEPT !.op = "SetTag"]
    /\ UNCHANGED <<ndebug, status, length, audio_format, bit_rate, times, hist>>
    /\ UNCHANGED <<pack_vars, earlier, plugin_vars>>

\* Reset(): the chunk is empty again and has no tag.
Reset ==
    /\ status = "live"
    /\ length' = 0
    /\ tag_deletes' = DeleteTag(tag_deletes, tag)
    /\ tag' = 0
    /\ call' = [NoCall EXCEPT !.op = "Reset"]
    /\ hist' = NoHist
    /\ UNCHANGED <<ndebug, status, audio_format, bit_rate, times, tags_new>>
    /\ UNCHANGED <<pack_vars, earlier, plugin_vars>>

Destructor_NoDelete ==
    /\ status = "live"
    /\ status' = "destroyed"
    /\ call' = [NoCall EXCEPT !.op = "~MusicChunk"]
    /\ UNCHANGED <<ndebug, length, audio_format, bit_rate, times,
                   tag, tags_new, tag_deletes, hist>>
    /\ UNCHANGED <<pack_vars, earlier, plugin_vars>>

\* MusicChunk::~MusicChunk
Destructor ==
    /\ status = "live"
    /\ tag_deletes' = DeleteTag(tag_deletes, tag)
    /\ status' = "destroyed"
    /\ call' = [NoCall EXCEPT !.op = "~MusicChunk"]
    /\ UNCHANGED <<ndebug, length, audio_format, bit_rate, times,
                   tag, tags_new, hist>>
    /\ UNCHANGED <<pack_vars, earlier, plugin_vars>>

(***************************************************************************)
(* pcm_dsd_to_usb: DSD bytes packed into 24 bit samples (DSD over PCM).    *)
(***************************************************************************)
\* The marker bytes 0x05 and 0xFA.
Marker1 == 5
Marker2 == 250

\* The values of the DSD bytes the callers pass.
DsdBytes == {0, 170, 255}

Marker_Stuck(frame_index) == Marker1

\* The marker of a DSD frame, by its 0-based index within the call.
Marker(frame_index) == IF frame_index % 2 = 0 THEN Marker1 ELSE Marker2

\* (marker << 16) | (dsd << 8)
UsbWord(marker, dsd) == marker * 65536 + dsd * 256

\* The words of the frames of src, the first of which has index frame_index.
RECURSIVE PackFrames(_, _, _)
PackFrames(channels, src, frame_index) ==
    IF Len(src) < channels
    THEN <<>>
    ELSE [c \in 1..channels |-> UsbWord(Marker(frame_index), src[c])]
         \o PackFrames(channels, SubSeq(src, channels + 1, Len(src)),
                       frame_index + 1)

BufferGet_Exact(capacity, size) == size

\* PcmBuffer::Get: the capacity after a request for `size` bytes.
BufferGet(capacity, size) == IF capacity < size THEN size ELSE capacity

NoPack == [op |-> "none", channels |-> 0, src |-> <<>>, error |-> "none",
           null |-> TRUE, view |-> <<>>]

MalformedLength_Never(channels, src) == FALSE

FirstFrame_Carried == Len(packed.view)

\* The index of the first frame of a call: every call starts anew.
FirstFrame == 0

\* The input is no whole number of DSD frames.
MalformedLength(channels, src) == Len(src) % channels # 0

pcm_dsd_to_usb(channels, src) ==
    /\ IF MalformedLength(channels, src)
       THEN /\ packed' = [NoPack EXCEPT !.op = "Pack", !.channels = channels,
                                        !.src = src,
                                        !.error = "InvalidArgument"]
            /\ UNCHANGED scratch
       ELSE /\ scratch' = BufferGet(scratch, 4 * Len(src))
            /\ packed' = [NoPack EXCEPT !.op = "Pack", !.channels = channels,
                                        !.src = src, !.null = FALSE,
                                        !.view = PackFrames(channels, src,
                                                            FirstFrame)]
    /\ UNCHANGED <<chunk_vars, plugin_vars>>

\* The DSD byte spans the callers pass.
DsdInputs == UNION {[1..n -> DsdBytes] : n \in 0..MaxSrcLen}

PackNext ==
    \E channels \in 1..MaxPackChannels, src \in DsdInputs :
        pcm_dsd_to_usb(channels, src) /\ UNCHANGED earlier

\* A call of which `earlier` may keep the call made before it.
PackAfter(channels, src) ==
    /\ pcm_dsd_to_usb(channels, src)
    /\ earlier' \in {earlier, packed}

\* The caller goes on with another, new PcmBuffer.
NewBuffer ==
    /\ scratch # 0
    /\ scratch' = 0
    /\ UNCHANGED <<chunk_vars, packed, earlier, plugin_vars>>

PairInputs == UNION {[1..n -> DsdBytes] : n \in 0..MaxPairLen}

PairNext ==
    \/ \E channels \in 1..MaxPackChannels, src \in PairInputs :
           PackAfter(channels, src)
    \/ NewBuffer

(***************************************************************************)
(* The decoder plugins: sndfile_stream_decode, sndfile_scan_stream,        *)
(* mpd_mpg123_file_decode and mpd_mpg123_scan_file, statement by statement.*)
(***************************************************************************)
SndfileFunctions == {"sndfile_stream_decode", "sndfile_scan_stream"}
Mpg123Functions == {"mpd_mpg123_file_decode", "mpd_mpg123_scan_file"}
DecodeFunctions == {"sndfile_stream_decode", "mpd_mpg123_file_decode"}
PluginFunctions == SndfileFunctions \cup Mpg123Functions

\* enum class DecoderCommand
DecoderCommands == {"NONE", "START", "STOP", "SEEK"}

DecoderStep(d) ==
    /\ decoder' = d
    /\ UNCHANGED <<chunk_vars, pack_vars, earlier, is, vio>>

\* The decoder thread calls a plugin function.
CallPlugin(fn) ==
    /\ decoder.pc = "idle"
    /\ DecoderStep([NoDecoder EXCEPT !.fn = fn, !.pc = "open"])

\* SNDFILE *const sf = sf_open_virtual(...); if (sf == nullptr) return;
sf_open_virtual(ok) ==
    /\ decoder.pc = "open"
    /\ decoder.fn \in SndfileFunctions
    /\ DecoderStep(IF ok
                   THEN [decoder EXCEPT !.opened = TRUE, !.pc = "format"]
                   ELSE [decoder EXCEPT !.pc = "returned"])

\* handle = mpg123_new(nullptr, &error); if (handle == nullptr) return;
mpg123_new(ok) ==
    /\ decoder.pc = "open"
    /\ decoder.fn \in Mpg123Functions
    /\ DecoderStep(IF ok
                   THEN [decoder EXCEPT !.opened = TRUE, !.pc = "format"]
                   ELSE [decoder EXCEPT !.pc = "returned"])

\* sndfile_stream_decode: if (!audio_format_init_checked(...)) {
\* LogError(error); return; }, else decoder_initialized() and the loop.
audio_format_init_checked(ok) ==
    /\ decoder.pc = "format"
    /\ decoder.fn = "sndfile_stream_decode"
    /\ DecoderStep(IF ok
                   THEN [decoder EXCEPT !.pc = "read"]
                   ELSE [decoder EXCEPT !.pc = "returned"])

\* sndfile_scan_stream: if (!audio_valid_sample_rate(info.samplerate)) {
\* sf_close(sf); ... return false; }, else the duration and the tags.
audio_valid_sample_rate(ok) ==
    /\ decoder.pc = "format"
    /\ decoder.fn = "sndfile_scan_stream"
    /\ DecoderStep(IF ok
                   THEN [decoder EXCEPT !.pc = "close"]
                   ELSE [decoder EXCEPT !.releases = @ + 1,
                                        !.pc = "returned"])

\* if (!mpd_mpg123_open(handle, ...)) { mpg123_delete(handle); return; }
\* else the decoder is initialized (decode) or the length is read (scan).
mpd_mpg123_open(ok) ==
    /\ decoder.pc = "format"
    /\ decoder.fn \in Mpg123Functions
    /\ DecoderStep(IF ok
                   THEN [decoder EXCEPT
                            !.pc = IF decoder.fn = "mpd_mpg123_file_decode"
                                   THEN "read" ELSE "length"]
                   ELSE [decoder EXCEPT !.releases = @ + 1,
                                        !.pc = "returned"])

\* mpd_mpg123_scan_file: num_samples = mpg123_length(handle);
\* if (num_samples <= 0) { mpg123_delete(handle); return false; }
mpg123_length(positive) ==
    /\ decoder.pc = "length"
    /\ DecoderStep(IF positive
                   THEN [decoder EXCEPT !.pc = "close"]
                   ELSE [decoder EXCEPT !.releases = @ + 1,
                                        !.pc = "returned"])

\* The head of the loop: sf_readf_int() or mpg123_read();
\* "if (num_frames <= 0) break;" or "if (error != MPG123_OK) ... break;".
ReadFrames(ok) ==
    /\ decoder.pc = "read"
    /\ ok => decoder.datas < MaxData
    /\ DecoderStep(IF ok
                   THEN [decoder EXCEPT !.pc = "data"]
                   ELSE [decoder EXCEPT !.pc = "close"])

\* cmd = decoder_data(...); if (cmd == DecoderCommand::SEEK) ...
decoder_data(command) ==
    /\ decoder.pc = "data"
    /\ DecoderStep([decoder EXCEPT
                       !.cmd = command,
                       !.last = command,
                       !.datas = @ + 1,
                       !.seeks = IF command = "SEEK" THEN @ + 1 ELSE @,
                       !.pc = IF command = "SEEK" THEN "seek" ELSE "while"])

AfterSeek_Kept == "SEEK"

\* cmd = DecoderCommand::NONE; at the end of the SEEK branch.
AfterSeek == "NONE"

\* if (c < 0) decoder_seek_error(decoder);
\* else decoder_command_finished(decoder);
SeekAck(negative) ==
    IF negative THEN "decoder_seek_error" ELSE "decoder_command_finished"

\* c = decoder_seek_where_frame(decoder); c = sf_seek(sf, c, SEEK_SET) or
\* mpg123_seek(handle, c, SEEK_SET); the acknowledgement; cmd = NONE.
SeekCommand(negative) ==
    /\ decoder.pc = "seek"
    /\ DecoderStep([decoder EXCEPT !.seek_failed = negative,
                                   !.acks = @ + 1,
                                   !.ack = SeekAck(negative),
                                   !.cmd = AfterSeek,
                                   !.pc = "while"])

\* } while (cmd == DecoderCommand::NONE);
While ==
    /\ decoder.pc = "while"
    /\ DecoderStep([decoder EXCEPT
                       !.pc = IF decoder.cmd = "NONE" THEN "read"
                              ELSE "close"])

\* The last statements: sf_close(sf) or mpg123_delete(handle), and return.
Close ==
    /\ decoder.pc = "close"
    /\ DecoderStep([decoder EXCEPT !.releases = @ + 1, !.pc = "returned"])

DecodeNext ==
    \/ \E fn \in PluginFunctions : CallPlugin(fn)
    \/ \E ok \in BOOLEAN : sf_open_virtual(ok)
    \/ \E ok \in BOOLEAN : mpg123_new(ok)
    \/ \E ok \in BOOLEAN : audio_format_init_checked(ok)
    \/ \E ok \in BOOLEAN : audio_valid_sample_rate(ok)
    \/ \E ok \in BOOLEAN : mpd_mpg123_open(ok)
    \/ \E positive \in BOOLEAN : mpg123_length(positive)
    \/ \E ok \in BOOLEAN : ReadFrames(ok)
    \/ \E command \in DecoderCommands : decoder_data(command)
    \/ \E negative \in BOOLEAN : SeekCommand(negative)
    \/ While
    \/ Close

(***************************************************************************)
(* SndfileInputStream and the SF_VIRTUAL_IO callbacks.                     *)
(***************************************************************************)
\* The values of whence: the three of <stdio.h>, and any other int.
Whences == {"SEEK_SET", "SEEK_CUR", "SEEK_END", "other"}

VioStep(stream, v) ==
    /\ is' = stream
    /\ vio' = v
    /\ UNCHANGED <<chunk_vars, pack_vars, earlier, decoder>>

\* The decoder thread opens a stream of `size` bytes.
OpenStream(size, known, seekable) ==
    /\ ~is.open
    /\ VioStep([open |-> TRUE, size |-> size, known |-> known,
                seekable |-> seekable, offset |-> 0], vio)

\* decoder_read_full(): it reads until `size` bytes have arrived or the
\* stream has ended or failed, having given `got` bytes then.
decoder_read_full(size, got) == got = size

Read_Partial(size, got) == got

\* SndfileInputStream::Read:
\* return decoder_read_full(decoder, is, buffer, size) ? size : 0;
Read(size, got) == IF decoder_read_full(size, got) THEN size ELSE 0

\* The number of bytes left in the stream.
Available == IF is.offset < is.size THEN is.size - is.offset ELSE 0

\* return sis.Read(ptr, count);
sndfile_vio_read(count, got) ==
    /\ is.open
    /\ got <= count
    /\ got <= Available
    /\ VioStep([is EXCEPT !.offset = @ + got],
               [NoVio EXCEPT !.op = "read", !.count = count, !.got = got,
                             !.ret = Read(count, got)])

\* if (!is.KnownSize()) return -1; return is.GetSize();
sndfile_vio_get_filelen ==
    /\ is.open
    /\ VioStep(is, [NoVio EXCEPT !.op = "get_filelen",
                                 !.ret = IF ~is.known THEN -1 ELSE is.size])

\* return is.GetOffset();
sndfile_vio_tell ==
    /\ is.open
    /\ VioStep(is, [NoVio EXCEPT !.op = "tell", !.ret = is.offset])

\* The cases of "switch (whence)" that return -1 at once.
SeekRejects(whence) ==
    \/ whence \notin {"SEEK_SET", "SEEK_CUR", "SEEK_END"}
    \/ whence = "SEEK_END" /\ ~is.known

SeekTarget_EndIsCur(_offset, whence) ==
    IF whence = "SEEK_SET" THEN _offset ELSE _offset + is.offset

\* offset_type offset = _offset; and the additions of "switch (whence)".
SeekTarget(_offset, whence) ==
    CASE whence = "SEEK_SET" -> _offset
      [] whence = "SEEK_CUR" -> _offset + is.offset
      [] whence = "SEEK_END" -> _offset + is.size
      [] OTHER -> _offset

\* InputStream::LockSeek can succeed on a seekable stream for an offset
\* within the stream.
CanSeek(offset) == is.seekable /\ offset \in 0..is.size

\* sndfile_vio_seek: ok is what LockSeek() returns, if it is called.
sndfile_vio_seek(_offset, whence, ok) ==
    /\ is.open
    /\ LET call_ == [NoVio EXCEPT !.op = "seek", !.offset = _offset,
                                  !.whence = whence]
           offset == SeekTarget(_offset, whence)
       IN  IF SeekRejects(whence)
           THEN /\ ~ok
                /\ VioStep(is, [call_ EXCEPT !.ret = -1])
           ELSE /\ ok => CanSeek(offset)
                /\ IF ~ok
                   THEN VioStep(is, [call_ EXCEPT !.sought = TRUE,
                                                  !.target = offset,
                                                  !.ret = -1])
                   ELSE VioStep([is EXCEPT !.offset = offset],
                                [call_ EXCEPT !.sought = TRUE,
                                              !.target = offset,
                                              !.ok = TRUE,
                                              !.ret = offset])

VioNext ==
    \/ \E size \in 0..MaxStreamSize, known \in BOOLEAN, seekable \in BOOLEAN :
           OpenStream(size, known, seekable)
    \/ \E count \in 0..MaxStreamSize, got \in 0..MaxStreamSize :
           sndfile_vio_read(count, got)
    \/ sndfile_vio_get_filelen
    \/ sndfile_vio_tell
    \/ \E _offset \in (-MaxStreamSize)..MaxStreamSize, whence \in Whences,
          ok \in BOOLEAN :
           sndfile_vio_seek(_offset, whence, ok)

(***************************************************************************)
(* The specification of the chunk.                                         *)
(***************************************************************************)
\* The byte counts the callers pass to Expand().
CommitSizes == (0..MaxCommit) \cup {SizeMod - k : k \in 1..MaxWrapBack}

\* A constructed chunk: length is 0 and there is no tag; bit_rate, times and
\* (debug build) audio_format are not initialized.
Init ==
    /\ ndebug \in BOOLEAN
    /\ status = "live"
    /\ length = 0
    /\ audio_format \in (IF ndebug THEN {NoField} ELSE AudioFormats)
    /\ \E s \in Stamps : bit_rate = s.bit_rate /\ times = s.data_time
    /\ tag = 0
    /\ tags_new = 0
    /\ tag_deletes = [id \in 1..MaxTags |-> 0]
    /\ call = NoCall
    /\ hist = NoHist
    /\ scratch = 0
    /\ packed = NoPack
    /\ earlier = NoPack
    /\ decoder = NoDecoder
    /\ is = NoStream
    /\ vio = NoVio

Next ==
    \/ \E af \in AudioFormats, s \in Stamps :
           Write(af, s.data_time, s.bit_rate)
    \/ \E af \in AudioFormats, n \in CommitSizes : Expand(af, n)
    \/ SetTag
    \/ Reset
    \/ Destructor

Spec == Init /\ [][Next]_vars

\* The specification of the packer, which never touches the chunk: one
\* initial chunk stands for all.
PackInit == Init /\ ndebug /\ times = 1

PackSpec == PackInit /\ [][PackNext]_vars

\* Sequences of calls, of which two are compared.
PairSpec == PackInit /\ [][PairNext]_vars

\* The callbacks libsndfile calls on one stream.
VioSpec == PackInit /\ [][VioNext]_vars

\* One run of a decode or scan function of a decoder plugin.
DecodeSpec == PackInit /\ [][DecodeNext]_vars

(***************************************************************************)
(* Properties of the chunk.                                                *)
(***************************************************************************)
TypeOK ==
    /\ ndebug \in BOOLEAN
    /\ status \in {"live", "aborted", "destroyed"}
    /\ length \in 0..(SizeMod - 1)
    /\ audio_format \in AudioFormats \cup {NoField}
    /\ tag \in 0..MaxTags
    /\ tags_new \in 0..MaxTags
    /\ hist.reserved \in 0..(SizeMod - 1)

\* The free space of a chunk whose length is within its capacity.
Free == SizeofData - length

\* C1: as long as every Expand() commits no more than what is left of the
\* region the preceding Write() returned, length is at most sizeof(data),
\* and no Write() or Expand() decreases it.
C1_LengthMonotoneBounded ==
    /\ [](hist.fits => length <= SizeofData)
    /\ [][(hist'.fits /\ call'.op \in {"Write", "Expand"})
            => length' >= length]_vars

\* A chunk filled to its capacity by commits that fit their regions.
C1_Witness ==
    /\ hist.fits
    /\ call.op = "Expand"
    /\ ~call.failed
    /\ call.n > 0
    /\ call.n < SizeofData
    /\ length = SizeofData

\* C3: for a chunk within its capacity, Expand() returns true if and only if
\* the free space after adding the bytes is less than one frame.
C3_FullIffLessThanAFrame ==
    (call.op = "Expand" /\ ~call.failed /\ length <= SizeofData)
        => (call.full <=> Free < GetFrameSize(call.af))

\* Exactly one frame is left after an Expand(), which returned false.
C3_Witness ==
    /\ call.op = "Expand"
    /\ ~call.failed
    /\ IsValid(call.af)
    /\ call.n > 0
    /\ Free = GetFrameSize(call.af)
    /\ ~call.full

\* C4: for a chunk within its capacity and a valid format, Write() returns
\* Null exactly when less than a frame is free; otherwise the region starts
\* at offset length, is the largest whole number of frames that fits, and
\* ends within the data array.
C4_RegionIsWholeFrames ==
    (call.op = "Write" /\ ~call.failed /\ IsValid(call.af)
       /\ length <= SizeofData)
        => LET frame_size == GetFrameSize(call.af)
               region == call.region
           IN  /\ region.null <=> Free < frame_size
               /\ region.null => region.size = 0
               /\ ~region.null =>
                    /\ region.off = length
                    /\ region.size = (Free \div frame_size) * frame_size
                    /\ region.size % frame_size = 0
                    /\ region.size > 0
                    /\ region.size <= Free
                    /\ Free - region.size < frame_size
                    /\ region.off + region.size <= SizeofData

\* A Write() on a partly filled chunk whose free space is no whole number of
\* frames: the region is shorter than the free space.
C4_Witness ==
    /\ call.op = "Write"
    /\ ~call.failed
    /\ IsValid(call.af)
    /\ length > 0
    /\ ~call.region.null
    /\ call.region.size < Free
    /\ call.region.size > GetFrameSize(call.af)

\* C8: Write() never changes length, whatever it returns.
C8_WriteKeepsLength ==
    [][call'.op = "Write" => length' = length]_vars

\* A Write() on a partly filled chunk that returned a region.
C8_Witness ==
    /\ call.op = "Write"
    /\ ~call.failed
    /\ ~call.region.null
    /\ length > 0
    /\ length < SizeofData

\* The format of the chunk's data: the audio_format field, and in the
\* release build, which has no such field, the one format of all calls.
ChunkFormat == IF ndebug THEN hist.af ELSE audio_format

\* The call of this step was rejected: it failed and left the chunk as it was.
Rejected ==
    /\ call'.failed
    /\ status' = "aborted"
    /\ UNCHANGED <<length, audio_format, bit_rate, times, tag>>

\* C2, as claimed: once length > 0 (by commits that followed a Write() and
\* fit its region), in either build, a Write() or Expand() with a format
\* other than the chunk's is rejected, and one with the chunk's format is
\* not and leaves times and bit_rate alone.
C2_Original ==
    [][(length > 0 /\ call'.op \in {"Write", "Expand"}
          /\ hist.written /\ hist.fits
          /\ IsValid(ChunkFormat) /\ IsValid(call'.af))
        => /\ call'.af # ChunkFormat => Rejected
           /\ (call'.af = ChunkFormat
                 /\ (call'.op = "Expand" => call'.n <= hist.reserved))
                => (~call'.failed /\ times' = times /\ bit_rate' = bit_rate)
      ]_vars

\* C2, amended: once length > 0, the debug build rejects (a failed assertion)
\* every Write() and Expand() whose format is not audio_format; no Write()
\* or Expand() changes times or bit_rate; and a call with a valid format,
\* which in the debug build is audio_format, does not fail, given that an
\* Expand() commits no more than what is left of the reserved region.
C2_RejectedInDebugBuild ==
    [][(length > 0 /\ call'.op \in {"Write", "Expand"})
        => /\ times' = times
           /\ bit_rate' = bit_rate
           /\ (~ndebug /\ call'.af # audio_format) => Rejected
           /\ (IsValid(call'.af)
                 /\ (ndebug \/ call'.af = audio_format)
                 /\ (call'.op = "Expand" => call'.n <= hist.reserved))
                => ~call'.failed
      ]_vars

\* The debug build has rejected a call with a valid format that is not the
\* format of the partly filled chunk.
C2_Witness ==
    /\ ~ndebug
    /\ status = "aborted"
    /\ call.failed
    /\ length > 0
    /\ IsValid(call.af)
    /\ IsValid(audio_format)
    /\ call.af # audio_format
    /\ GetFrameSize(call.af) < GetFrameSize(audio_format)
    /\ hist.fits

\* C5, as claimed: the first Write() of an empty chunk stores the stamps it
\* is given, and no later Write() changes them.
C5_Original ==
    [][(call'.op = "Write" /\ ~call'.failed)
        => IF hist.written
           THEN times' = times /\ bit_rate' = bit_rate
           ELSE length = 0 =>
                   (times' = call'.data_time /\ bit_rate' = call'.bit_rate)
      ]_vars

\* C5, amended: every Write() of an empty chunk, the first or not, stores
\* the stamps it is given; no Write() of a chunk with length > 0 and no
\* Expand() changes them.
C5_StampedWhileEmpty ==
    /\ [][(call'.op = "Write" /\ ~call'.failed)
           => IF length = 0
              THEN times' = call'.data_time /\ bit_rate' = call'.bit_rate
              ELSE times' = times /\ bit_rate' = bit_rate
         ]_vars
    /\ [][(call'.op = "Expand" \/ call'.failed)
           => (times' = times /\ bit_rate' = bit_rate)]_vars

\* A Write() on a partly filled chunk has kept the stamps of an earlier one.
C5_Witness ==
    /\ call.op = "Write"
    /\ ~call.failed
    /\ ~call.region.null
    /\ length > 0
    /\ hist.fits
    /\ times # call.data_time
    /\ bit_rate # call.bit_rate

\* C6, as claimed: after the first Write(), no Write() or Expand() changes
\* audio_format.
C6_Original ==
    [][(hist.written /\ call'.op \in {"Write", "Expand"})
        => audio_format' = audio_format]_vars

\* C6, amended: in the debug build every Write() that returns a region sets
\* audio_format to its format, which replaces an earlier one only while the
\* chunk is empty: once length > 0 no Write() or Expand() changes it, and
\* every Expand() that commits has the chunk's format.
C6_FormatFixedOnceNonEmpty ==
    /\ [][(length > 0 /\ call'.op \in {"Write", "Expand"})
           => audio_format' = audio_format]_vars
    /\ [][call'.op = "Expand" => audio_format' = audio_format]_vars
    /\ [][(~ndebug /\ call'.op = "Write" /\ ~call'.failed)
           => audio_format' = IF call'.region.null THEN audio_format
                              ELSE call'.af]_vars
    /\ []((~ndebug /\ call.op = "Expand" /\ ~call.failed)
           => call.af = audio_format)

\* The debug build, a partly filled chunk, and a Write() with its format.
C6_Witness ==
    /\ ~ndebug
    /\ call.op = "Write"
    /\ ~call.failed
    /\ ~call.region.null
    /\ length > 0
    /\ hist.af = MixedFormats
    /\ hist.fits
    /\ call.af = audio_format

\* C7: after every Expand(), length is a whole number of frames, when all
\* calls since the chunk was empty have one format, every commit was a whole
\* number of its frames and no more than what was left of the reserved
\* region.
C7_LengthIsWholeFrames ==
    (call.op = "Expand" /\ ~call.failed /\ hist.fits /\ IsValid(hist.af))
        => /\ length % GetFrameSize(hist.af) = 0
           /\ ~ndebug => audio_format = hist.af

\* Two or more frames of more than one channel are committed.
C7_Witness ==
    /\ call.op = "Expand"
    /\ ~call.failed
    /\ hist.fits
    /\ IsValid(hist.af)
    /\ hist.af.channels > 1
    /\ call.n > 0
    /\ length > call.n

\* C9: after Reset() the chunk is empty and has no tag; and every Tag is
\* deleted exactly once: the attached one not yet, unless the chunk is
\* destroyed, and every other one once.
C9_ResetAndTagOwnership ==
    /\ call.op = "Reset" => (length = 0 /\ tag = 0)
    /\ \A id \in 1..MaxTags :
          tag_deletes[id] =
              IF id > tags_new THEN 0
              ELSE IF status # "destroyed" /\ id = tag THEN 0
              ELSE 1

\* Reset() on a chunk that held data and a tag, the second one attached.
C9_Witness ==
    /\ call.op = "Reset"
    /\ tags_new >= 2
    /\ \A id \in 1..tags_new : tag_deletes[id] = 1
    /\ hist = NoHist
    /\ length = 0
    /\ tag = 0

(***************************************************************************)
(* Properties of the packer.                                               *)
(***************************************************************************)
\* C10: the k-th output word carries the k-th input byte in bits 8..15 and,
\* in bits 16..23, 0x05 when its frame has an even index and 0xFA when odd.
C10_WordsCarryMarkerAndByte ==
    (packed.op = "Pack" /\ packed.error = "none")
        => /\ Len(packed.view) = Len(packed.src)
           /\ \A k \in 1..Len(packed.src) :
                LET frame == (k - 1) \div packed.channels
                    word == packed.view[k]
                IN  /\ word % 256 = 0
                    /\ (word \div 256) % 256 = packed.src[k]
                    /\ word \div 65536 = IF frame % 2 = 0 THEN 5 ELSE 250

\* Two frames of two channels: 0x05 in words 0-1, 0xFA in words 2-3.
C10_Witness ==
    /\ packed.op = "Pack"
    /\ packed.error = "none"
    /\ packed.channels = 2
    /\ packed.src = <<170, 255, 0, 170>>
    /\ packed.view = <<5 * 65536 + 170 * 256, 5 * 65536 + 255 * 256,
                       250 * 65536, 250 * 65536 + 170 * 256>>

\* C11: a call whose input length is no multiple of channels fails with
\* InvalidArgument, returns no view, and leaves the buffer as it was.
C11_MalformedLengthFails ==
    /\ []((packed.op = "Pack" /\ Len(packed.src) % packed.channels # 0)
            => /\ packed.error = "InvalidArgument"
               /\ packed.null
               /\ packed.view = <<>>)
    /\ []((packed.op = "Pack" /\ Len(packed.src) % packed.channels = 0)
            => (packed.error = "none" /\ ~packed.null))
    /\ [][(packed'.op = "Pack" /\ Len(packed'.src) % packed'.channels # 0)
            => scratch' = scratch]_vars

\* A call with three bytes for two channels failed, on a buffer that an
\* earlier call has filled.
C11_Witness ==
    /\ packed.op = "Pack"
    /\ packed.channels = 2
    /\ Len(packed.src) = 3
    /\ packed.error = "InvalidArgument"
    /\ scratch > 0

\* C12: the view of every successful call has 4 bytes for each input byte
\* and lies within the buffer's capacity, which never decreases.
C12_ViewWithinCapacity ==
    /\ []((packed.op = "Pack" /\ packed.error = "none")
            => /\ 4 * Len(packed.view) = 4 * Len(packed.src)
               /\ 4 * Len(packed.view) <= scratch)
    /\ [][scratch' >= scratch]_vars

\* A call with less input than an earlier one: the buffer is larger than the
\* view.
C12_Witness ==
    /\ packed.op = "Pack"
    /\ packed.error = "none"
    /\ Len(packed.src) > 0
    /\ 4 * Len(packed.view) < scratch

(***************************************************************************)
(* More properties of the chunk.                                           *)
(***************************************************************************)
\* C14, as claimed: in the release build length never exceeds sizeof(data),
\* and no Write() with a valid format returns a region that ends past the
\* data array, whatever byte counts Expand() was given after a Write(), in
\* whole frames of the one valid format of all calls.
C14_BoundedInRelease ==
    (ndebug /\ hist.written /\ IsValid(hist.af)) =>
        /\ length <= SizeofData
        /\ (call.op = "Write" /\ ~call.failed /\ IsValid(call.af)
              /\ ~call.region.null)
            => call.region.off + call.region.size <= SizeofData

\* C19: for a chunk within its capacity, Expand() returns true if and only
\* if a Write() with the same valid format that follows it at once returns
\* Null, and false if and only if that Write() returns at least one frame.
C19_FullAgreesWithNextWrite ==
    [][(call.op = "Expand" /\ ~call.failed
          /\ call'.op = "Write" /\ ~call'.failed
          /\ call'.af = call.af /\ IsValid(call.af)
          /\ length <= SizeofData)
        => /\ call.full <=> call'.region.null
           /\ ~call.full <=> (/\ ~call'.region.null
                              /\ call'.region.size >= GetFrameSize(call.af))
      ]_vars

\* Expand() returned true with some bytes still free, and the Write() that
\* followed returned Null.
C19_Witness ==
    /\ call.op = "Write"
    /\ ~call.failed
    /\ IsValid(call.af)
    /\ call.region.null
    /\ hist.fits
    /\ length > 0
    /\ length < SizeofData

\* C20: in the debug build no assertion fails in a Write() with a valid
\* format that is the chunk's format when length > 0, nor in an Expand() with
\* the format of the last Write() that returned a region and a byte count
\* within what is left of that region.
C20_NoAssertionFailsInProtocol ==
    /\ [][(/\ ~ndebug
           /\ call'.op = "Write"
           /\ IsValid(call'.af)
           /\ (length > 0 => call'.af = hist.raf))
          => ~call'.failed]_vars
    /\ [][(/\ ~ndebug
           /\ call'.op = "Expand"
           /\ call'.af = hist.raf
           /\ call'.n <= hist.reserved)
          => ~call'.failed]_vars

\* A debug build, in which a second Write() of the same format was followed
\* by an Expand() of its whole region that filled the chunk.
C20_Witness ==
    /\ ~ndebug
    /\ status = "live"
    /\ call.op = "Expand"
    /\ call.af = hist.raf
    /\ call.n > 0
    /\ call.n < length
    /\ call.full
    /\ hist.fits
    /\ IsValid(hist.af)

InLoop == decoder.fn \in DecodeFunctions

\* C15: in both loops every SEEK that decoder_data() returned has had its
\* one acknowledgement, decoder_seek_error() if the seek returned a negative
\* position and decoder_command_finished() otherwise, before the loop goes
\* on, which it does with the next read; after any other command but NONE
\* the loop ends, and no acknowledgement is made then.
C15_SeekAnsweredOnce ==
    /\ []((InLoop /\ decoder.pc = "seek")
            => (decoder.last = "SEEK" /\ decoder.acks = decoder.seeks - 1))
    /\ []((InLoop /\ decoder.pc # "seek") => decoder.acks = decoder.seeks)
    /\ [][(InLoop /\ decoder.pc = "seek")
            => /\ decoder'.acks = decoder.acks + 1
               /\ decoder'.ack = IF decoder'.seek_failed
                                 THEN "decoder_seek_error"
                                 ELSE "decoder_command_finished"]_vars
    /\ [][(InLoop /\ decoder.pc = "while" /\ decoder.last \in {"NONE", "SEEK"})
            => decoder'.pc = "read"]_vars
    /\ [][(InLoop /\ decoder.pc = "while"
             /\ decoder.last \notin {"NONE", "SEEK"})
            => (decoder'.pc = "close" /\ decoder'.acks = decoder.acks)]_vars
\* The mpg123 loop has answered a failed seek and a successful one, and has
\* ended on a STOP command.
C15_Witness ==
    /\ decoder.fn = "mpd_mpg123_file_decode"
    /\ decoder.pc = "returned"
    /\ decoder.last = "STOP"
    /\ decoder.seeks = 2
    /\ decoder.acks = 2
    /\ decoder.ack = "decoder_command_finished"
    /\ ~decoder.seek_failed

\* C18, as claimed: a handle that a function has opened has been released
\* exactly once when the function has returned, and is never released twice
\* nor without having been opened.
C18_HandleReleasedOnce ==
    /\ decoder.releases <= 1
    /\ decoder.releases = 1 => decoder.opened
    /\ (decoder.pc = "returned" /\ decoder.opened) => decoder.releases = 1

(***************************************************************************)
(* The SF_VIRTUAL_IO callbacks.                                            *)
(***************************************************************************)
\* C16: sndfile_vio_read returns the requested count if the stream gave all
\* of it, and 0 if it gave less; never a count in between.
C16_ReadAllOrNothing ==
    (vio.op = "read")
        => /\ vio.ret \in {0, vio.count}
           /\ vio.got = vio.count => vio.ret = vio.count
           /\ vio.got < vio.count => vio.ret = 0

\* A read of three bytes, of which the stream gave two.
C16_Witness ==
    /\ vio.op = "read"
    /\ vio.count = 3
    /\ vio.got = 2
    /\ vio.ret = 0
    /\ is.offset = 2

\* C17: sndfile_vio_seek returns -1 and leaves the stream alone if whence is
\* none of the three or is SEEK_END with the size unknown; otherwise it seeks
\* to offset, offset + the stream's offset or offset + the stream's size, and
\* returns -1 if that seek fails and the stream's new offset if not.
C17_SeekByWhence ==
    [][vio'.op = "seek"
        => LET whence == vio'.whence
               target ==
                   CASE whence = "SEEK_SET" -> vio'.offset
                     [] whence = "SEEK_CUR" -> vio'.offset + is.offset
                     [] whence = "SEEK_END" -> vio'.offset + is.size
                     [] OTHER -> 0
           IN  IF \/ whence \notin {"SEEK_SET", "SEEK_CUR", "SEEK_END"}
                  \/ whence = "SEEK_END" /\ ~is.known
               THEN vio'.ret = -1 /\ ~vio'.sought /\ is' = is
               ELSE /\ vio'.sought
                    /\ vio'.target = target
                    /\ IF vio'.ok
                       THEN /\ is'.offset = target
                            /\ vio'.ret = is'.offset
                       ELSE vio'.ret = -1
      ]_vars

\* A seek back from the end of a stream of known size, from another offset.
C17_Witness ==
    /\ vio.op = "seek"
    /\ vio.whence = "SEEK_END"
    /\ vio.offset = -1
    /\ vio.ok
    /\ is.size = 3
    /\ vio.ret = 2
    /\ is.offset = 2

=============================================================================
